---- MODULE Spec2Model ----
(***************************************************************************)
(* ChatEase (src/main.py): a Streamlit script that relays typed or spoken  *)
(* input to a chat endpoint and stores the streamed reply in the session's *)
(* message list.  Text is modelled as a sequence of one-character strings, *)
(* so that concatenation, substring search and strip() are computed.       *)
(***************************************************************************)
EXTENDS Integers, Sequences, FiniteSets, TLC

\* ------------------------------------------------------------------ bounds
\* a script run (or a direct call) starts while fewer messages than this are stored
MaxMessages == 2
\* lines the chat endpoint serves over one session
MaxChunks == 3

\* ------------------------------------------------------------------- texts
Empty == <<>>
Hi == <<"H", "i">>
Hel == <<"H", "e", "l">>
Lo == <<"l", "o", "!">>
Hello == <<"H", "e", "l", "l", "o", "!">>
Sp == <<" ">>
HelloWorld == <<"h", "e", "l", "l", "o", " ", "w", "o", "r", "l", "d">>
ErrorText == <<"E", "r", "r", "o", "r">>

\* line 45: the end-of-turn marker
Sentinel == <<"<", "|", "i", "m", "_", "e", "n", "d", "|", ">">>

\* characters str.strip() removes
Whitespace == {" ", "\t", "\n", "\r"}

\* `a in b` on Python strings
Contains(hay, needle) ==
  \E i \in 0..(Len(hay) - Len(needle)) : SubSeq(hay, i + 1, i + Len(needle)) = needle

RECURSIVE LStrip(_)
LStrip(s) == IF s # <<>> /\ Head(s) \in Whitespace THEN LStrip(Tail(s)) ELSE s

RECURSIVE RStrip(_)
RStrip(s) ==
  IF s # <<>> /\ s[Len(s)] \in Whitespace THEN RStrip(SubSeq(s, 1, Len(s) - 1)) ELSE s

StripLeftOnly(s) == LStrip(s)

\* str.strip()
Strip(s) == RStrip(LStrip(s))

IsPrefix(p, s) == Len(p) <= Len(s) /\ SubSeq(s, 1, Len(p)) = p

\* ------------------------------------------------------------ environment
\* what st.chat_input returns: None (falsy) or the submitted text
ChatInputs == {Empty, Hi}

\* arguments a direct caller may hand to handle_chat
ApiInputs == {Empty, Hi, HelloWorld}

\* message.content values the chat endpoint may put in one line
Contents == {Hel, Lo, Sp, Sentinel, SubSeq(Sentinel, 1, 5), SubSeq(Sentinel, 6, 10),
             Lo \o Sentinel}

\* one element of response.iter_lines(): a keep-alive blank line, a JSON object
\* carrying message.content, or a line json.loads / ["message"]["content"] rejects
Lines == {[kind |-> "blank", content |-> Empty], [kind |-> "malformed", content |-> Empty]}
           \cup {[kind |-> "json", content |-> c] : c \in Contents}

\* a dict lookup with default: d.get(k, default)
Get(d, k, default) == IF k \in DOMAIN d THEN d[k] ELSE default

Alt(t) == [transcript |-> t]
Chan(alts) == [alternatives |-> alts]
Body(chans) == [results |-> [channels |-> chans]]

\* JSON bodies the transcription endpoint may answer with
Bodies == { Body(<<Chan(<<Alt(HelloWorld)>>)>>),
            Body(<<Chan(<<Alt(Sp \o HelloWorld \o Sp)>>)>>),
            Body(<<Chan(<<Alt(Sp)>>)>>),
            Body(<<Chan(<<Empty>>)>>),
            Body(<<Chan(<<>>)>>),
            Body(<<Empty>>),
            Body(<<>>),
            [results |-> Empty],
            Empty }

NoResponse == [status |-> 0, body |-> Empty]

\* responses of the transcription endpoint: 200 with a JSON body, or a failure
\* status, whose body the code never reads
Responses == {[status |-> 200, body |-> b] : b \in Bodies}
               \cup {[status |-> st, body |-> Empty] : st \in {401, 500}}

\* ------------------------------------------------------------------- state
VARIABLES
  pc,            \* position of the single thread
  retpc,         \* where the running handle_chat call returns to
  served,        \* lines served by the chat endpoint in this session
  messages,      \* st.session_state.messages
  arg,           \* handle_chat's user_input
  H,             \* messages at entry of the current / last handle_chat call
  sent,          \* the messages serialised into the request body (line 28)
  calls,         \* stream_response invocations of the current handle_chat call
  response_text, \* stream_response's buffer
  consumed,      \* lines read from the response so far
  ui,            \* what the current handle_chat call has published to the page
  returned,      \* stream_response's return value
  outcome,       \* how the current / last handle_chat call ended
  exc,           \* uncaught exception that ended the current run
  turns,         \* handle_chat calls of the current run
  stt,           \* transcribe_audio's response, until the script has used the transcript
  transcript,    \* transcribe_audio's return value
  notified,      \* st.error calls of the current run
  chat_errors    \* chat turns of the session that ended in an exception

vars == <<pc, retpc, served, messages, arg, H, sent, calls, response_text,
          consumed, ui, returned, outcome, exc, turns, stt, transcript, notified,
          chat_errors>>

streamVars == <<sent, calls, response_text, consumed, returned, served>>
sttVars == <<stt, transcript, notified>>

UserMessage(text) == [role |-> "user", content |-> text]

AssistantAsUser(text) == [role |-> "user", content |-> text]

AssistantMessage(text) == [role |-> "assistant", content |-> text]

\* lines 113-114: a new session starts with an empty message list
Init ==
  /\ pc = "idle"
  /\ retpc = "none"
  /\ served = 0
  /\ messages = <<>>
  /\ arg = Empty
  /\ H = <<>>
  /\ sent = <<>>
  /\ calls = 0
  /\ response_text = Empty
  /\ consumed = <<>>
  /\ ui = <<>>
  /\ returned = Empty
  /\ outcome = "none"
  /\ exc = "none"
  /\ turns = 0
  /\ stt = NoResponse
  /\ transcript = Empty
  /\ notified = 0
  /\ chat_errors = 0


\* ------------------------------------------------------------ stream_response
\* line 47 done wrongly: the buffer is replaced by the last content
Overwrite(text, content) == content

\* line 47: response_text += content
Accumulate(text, content) == text \o content

\* line 45: "<|im_end|>" in content
IsEndOfTurn(content) == Contains(content, Sentinel)

\* an exception leaves handle_chat and ends the run; the last message is removed
PropagateWithRollback(e) ==
  /\ pc' = "idle"
  /\ exc' = e
  /\ outcome' = "raised"
  /\ chat_errors' = chat_errors + 1
  /\ messages' = SubSeq(messages, 1, Len(messages) - 1)

\* lines 32, 43: nothing catches the exception; it leaves stream_response and
\* handle_chat (line 99) and ends the script run
Propagate(e) ==
  /\ pc' = "idle"
  /\ exc' = e
  /\ outcome' = "raised"
  /\ chat_errors' = chat_errors + 1
  /\ UNCHANGED messages

\* lines 27-34: the request is sent with the serialised messages; a failure status
\* makes raise_for_status() raise, a success status starts the read loop
StreamPost ==
  /\ pc = "hc99"
  /\ calls' = calls + 1
  /\ sent' = messages
  /\ \/ /\ pc' = "iter"
        /\ UNCHANGED <<messages, outcome, exc, chat_errors>>
     \/ Propagate("HTTPError")
  /\ UNCHANGED <<response_text, consumed>>
  /\ UNCHANGED <<retpc, served, arg, H, ui, returned, turns, sttVars>>

\* lines 38-48: one iteration of the read loop on the next line of the response
StreamChunk ==
  /\ pc = "iter"
  /\ served < MaxChunks
  /\ \E line \in Lines :
       /\ consumed' = Append(consumed, line)
       /\ served' = served + 1
       /\ \/ /\ line.kind = "blank"
             /\ pc' = "iter"
             /\ UNCHANGED <<response_text, ui, messages, outcome, exc, chat_errors>>
          \/ /\ line.kind = "malformed"
             /\ Propagate("ChunkError")
             /\ UNCHANGED <<response_text, ui>>
          \/ /\ line.kind = "json"
             /\ IsEndOfTurn(line.content)
             /\ pc' = "ret50"
             /\ UNCHANGED <<response_text, ui, messages, outcome, exc, chat_errors>>
          \/ /\ line.kind = "json"
             /\ ~IsEndOfTurn(line.content)
             /\ response_text' = Accumulate(response_text, line.content)
             /\ ui' = Append(ui, [role |-> "assistant", text |-> response_text'])
             /\ pc' = "iter"
             /\ UNCHANGED <<messages, outcome, exc, chat_errors>>
  /\ UNCHANGED <<retpc, arg, H, sent, calls, returned, turns, sttVars>>

\* line 38: iter_lines() is exhausted
StreamExhausted ==
  /\ pc = "iter"
  /\ pc' = "ret50"
  /\ UNCHANGED <<retpc, served, messages, arg, H, sent, calls, response_text,
                 consumed, ui, returned, outcome, exc, turns, sttVars, chat_errors>>

\* line 50: return response_text.strip()
StreamReturn ==
  /\ pc = "ret50"
  /\ returned' = Strip(response_text)
  /\ pc' = "hc102"
  /\ UNCHANGED <<retpc, served, messages, arg, H, sent, calls, response_text,
                 consumed, ui, outcome, exc, turns, sttVars, chat_errors>>

\* ---------------------------------------------------------------- handle_chat
\* a call of handle_chat(text) that returns to ret
CallHandleChat(text, ret) ==
  /\ pc' = "hc87"
  /\ retpc' = ret
  /\ arg' = text
  /\ H' = messages
  /\ calls' = 0
  /\ ui' = <<>>
  /\ outcome' = "running"
  /\ turns' = turns + 1
  /\ sent' = <<>>
  /\ response_text' = Empty
  /\ consumed' = <<>>
  /\ returned' = Empty
  /\ UNCHANGED <<served, messages, chat_errors>>

\* the guard of lines 87-88 is missing: the empty input is stored and shown
HandleChatEntryNoGuard ==
  /\ pc = "hc87"
  /\ messages' = Append(messages, UserMessage(arg))
  /\ ui' = Append(ui, [role |-> "user", text |-> arg])
  /\ pc' = "hc99"
  /\ UNCHANGED <<retpc, arg, H, streamVars, outcome, exc, turns, sttVars,
                 chat_errors>>

\* line 91 is missing: the user's message is shown but not stored
HandleChatEntryNotStored ==
  /\ pc = "hc87"
  /\ \/ /\ arg = Empty
        /\ pc' = retpc
        /\ outcome' = "noop"
        /\ UNCHANGED ui
     \/ /\ arg # Empty
        /\ ui' = Append(ui, [role |-> "user", text |-> arg])
        /\ pc' = "hc99"
        /\ UNCHANGED outcome
  /\ UNCHANGED <<retpc, messages, arg, H, streamVars, exc, turns, sttVars, chat_errors>>

\* lines 87-95: an empty input returns at once; any other is stored as the user's
\* message, then shown
HandleChatEntry ==
  /\ pc = "hc87"
  /\ \/ /\ arg = Empty
        /\ pc' = retpc
        /\ outcome' = "noop"
        /\ UNCHANGED <<messages, ui>>
     \/ /\ arg # Empty
        /\ messages' = Append(messages, UserMessage(arg))
        /\ ui' = Append(ui, [role |-> "user", text |-> arg])
        /\ pc' = "hc99"
        /\ UNCHANGED outcome
  /\ UNCHANGED <<retpc, arg, H, streamVars, exc, turns, sttVars, chat_errors>>

\* line 102: the reply is stored and handle_chat returns
HandleChatAssistant ==
  /\ pc = "hc102"
  /\ messages' = Append(messages, AssistantMessage(returned))
  /\ pc' = retpc
  /\ outcome' = "ok"
  /\ UNCHANGED <<retpc, arg, H, streamVars, ui, exc, turns, sttVars, chat_errors>>

\* ----------------------------------------------------------- transcribe_audio
\* the failure branch returns a message text, as the docstring words it
ErrorAsText == ErrorText

\* line 78: return ""
ErrorResult == Empty

\* lines 70-78: what the call does for a response: raise, or return value after
\* errors calls of st.error
transcribe_audio(status, body) ==
  IF status = 200
  THEN LET results == Get(body, "results", Empty)
           channels == Get(results, "channels", <<Empty>>)
       IN  IF channels = <<>>
           THEN [raised |-> TRUE, value |-> Empty, errors |-> 0]
           ELSE LET alternatives == Get(channels[1], "alternatives", <<Empty>>)
                IN  IF alternatives = <<>>
                    THEN [raised |-> TRUE, value |-> Empty, errors |-> 0]
                    ELSE [raised |-> FALSE,
                          value |-> Strip(Get(alternatives[1], "transcript", Empty)),
                          errors |-> 0]
  ELSE [raised |-> FALSE, value |-> ErrorResult, errors |-> 1]

\* ------------------------------------------------------------------ the script
\* the frame of a returned handle_chat call is gone
DropFrame ==
  /\ retpc' = "none"
  /\ arg' = Empty
  /\ H' = <<>>
  /\ sent' = <<>>
  /\ calls' = 0
  /\ response_text' = Empty
  /\ consumed' = <<>>
  /\ ui' = <<>>
  /\ returned' = Empty
  /\ outcome' = "none"

\* lines 106-122: a rerun of the script; the stored messages are drawn again
ScriptStart ==
  /\ pc = "idle"
  /\ Len(messages) < MaxMessages
  /\ pc' = "l124"
  /\ exc' = "none"
  /\ turns' = 0
  /\ stt' = NoResponse
  /\ transcript' = Empty
  /\ notified' = 0
  /\ DropFrame
  /\ UNCHANGED <<served, messages, chat_errors>>

\* lines 124-125: if user_input := st.chat_input(...): handle_chat(user_input)
TypedBranch ==
  /\ pc = "l124"
  /\ \E user_input \in ChatInputs :
       \/ /\ user_input # Empty
          /\ CallHandleChat(user_input, "l130")
          /\ UNCHANGED <<exc, sttVars>>
       \/ /\ user_input = Empty
          /\ pc' = "l130"
          /\ UNCHANGED <<retpc, messages, arg, H, streamVars, ui, outcome, exc,
                         turns, sttVars, chat_errors>>

\* lines 130-135: if audio: ... transcribe_audio(audio_buffer.getvalue())
AudioBranch ==
  /\ pc = "l130"
  /\ \E audio \in BOOLEAN :
       \/ /\ ~audio
          /\ pc' = "idle"
          /\ UNCHANGED <<exc, sttVars>>
       \/ /\ audio
          /\ \E response \in Responses :
               LET r == transcribe_audio(response.status, response.body)
               IN  /\ stt' = response
                   /\ notified' = notified + r.errors
                   /\ \/ /\ r.raised
                         /\ pc' = "idle"
                         /\ exc' = "IndexError"
                         /\ UNCHANGED transcript
                      \/ /\ ~r.raised
                         /\ pc' = "l135"
                         /\ transcript' = r.value
                         /\ UNCHANGED exc
  /\ DropFrame
  /\ UNCHANGED <<served, messages, turns, chat_errors>>

\* lines 135-136: if transcript := ...: handle_chat(transcript); the script ends
VoiceBranch ==
  /\ pc = "l135"
  /\ \/ /\ transcript # Empty
        /\ CallHandleChat(transcript, "idle")
     \/ /\ transcript = Empty
        /\ pc' = "idle"
        /\ UNCHANGED <<retpc, messages, arg, H, streamVars, ui, outcome, turns,
                       chat_errors>>
  /\ stt' = NoResponse
  /\ UNCHANGED <<exc, transcript, notified>>

\* a direct call of handle_chat with any argument
ApiCall ==
  /\ pc = "idle"
  /\ Len(messages) < MaxMessages
  /\ exc' = "none"
  /\ sent' = <<>>
  /\ response_text' = Empty
  /\ consumed' = <<>>
  /\ returned' = Empty
  /\ \E text \in ApiInputs :
       /\ pc' = "hc87"
       /\ retpc' = "idle"
       /\ arg' = text
       /\ H' = messages
       /\ calls' = 0
       /\ ui' = <<>>
       /\ outcome' = "running"
       /\ turns' = 1
  /\ UNCHANGED <<served, messages, sttVars, chat_errors>>

Next ==
  \/ ScriptStart
  \/ TypedBranch
  \/ AudioBranch
  \/ VoiceBranch
  \/ HandleChatEntry
  \/ StreamPost
  \/ StreamChunk
  \/ StreamExhausted
  \/ StreamReturn
  \/ HandleChatAssistant

\* a session of script runs
Spec == Init /\ [][Next]_vars

NextApi ==
  \/ ApiCall
  \/ HandleChatEntry
  \/ StreamPost
  \/ StreamChunk
  \/ StreamExhausted
  \/ StreamReturn
  \/ HandleChatAssistant

\* handle_chat called directly, with any argument
ApiSpec == Init /\ [][NextApi]_vars

\* ---------------------------------------------------------------- properties
\* the partial texts the running stream_response call has published
Partials ==
  LET shown == SelectSeq(ui, LAMBDA u : u.role = "assistant")
  IN  [i \in 1..Len(shown) |-> shown[i].text]

EndsTurn(line) == line.kind = "json" /\ Contains(line.content, Sentinel)

\* the contents of the lines that precede the first line holding the sentinel
RECURSIVE TextBeforeSentinel(_)
TextBeforeSentinel(ls) ==
  IF ls = <<>> \/ EndsTurn(Head(ls))
  THEN <<>>
  ELSE (IF Head(ls).kind = "json" THEN Head(ls).content ELSE <<>>)
         \o TextBeforeSentinel(Tail(ls))

\* s without its leading and trailing whitespace
Trimmed(s) ==
  LET solid == {i \in 1..Len(s) : s[i] \notin Whitespace}
  IN  IF solid = {}
      THEN <<>>
      ELSE SubSeq(s, CHOOSE i \in solid : \A j \in solid : i <= j,
                     CHOOSE i \in solid : \A j \in solid : i >= j)

Roles == [i \in 1..Len(messages) |-> messages[i].role]

InStream == pc \in {"iter", "ret50", "hc102"}

\* C1: a handle_chat call with a non-empty input whose stream completes has invoked
\* stream_response exactly once, with the messages already ending in the user's
\* message, and leaves messages = H, {user, input}, {assistant, returned text}.
C1_TurnAppendsUserThenAssistant ==
  /\ InStream =>
       /\ calls = 1
       /\ sent = Append(H, [role |-> "user", content |-> arg])
       /\ messages = sent
  /\ outcome = "ok" =>
       /\ arg # Empty
       /\ calls = 1
       /\ sent = Append(H, [role |-> "user", content |-> arg])
       /\ messages = Append(sent, [role |-> "assistant", content |-> returned])

C1_Witness == outcome = "ok" /\ H # <<>> /\ returned = Hello

\* C2: handle_chat with an empty input changes no message, never invokes
\* stream_response and publishes nothing.
C2_EmptyInputIsNoOp ==
  (outcome # "none" /\ arg = Empty) =>
     /\ outcome \in {"running", "noop"}
     /\ pc \in {"hc87", "idle"}
     /\ messages = H
     /\ calls = 0
     /\ sent = <<>>
     /\ ui = <<>>

C2_Witness == outcome = "noop" /\ H # <<>> /\ pc = "idle"

\* C3: each published partial extends the previous one, one partial is published
\* per content line, and once a line holding the sentinel is read nothing more is
\* read, appended to the buffer or published.
C3_PartialsPrefixMonotonic ==
  /\ \A i \in 1..(Len(Partials) - 1) : IsPrefix(Partials[i], Partials[i + 1])
  /\ Partials # <<>> => Partials[Len(Partials)] = response_text
  /\ \A k \in 1..Len(consumed) :
       EndsTurn(consumed[k]) =>
         /\ k = Len(consumed)
         /\ pc # "iter"
         /\ Len(Partials) = Cardinality({i \in 1..(k - 1) : consumed[i].kind = "json"})
         /\ response_text = TextBeforeSentinel(consumed)

C3_Witness ==
  /\ Len(Partials) >= 2
  /\ Partials[1] # Partials[2]
  /\ consumed # <<>> /\ EndsTurn(consumed[Len(consumed)])

\* C4: stream_response returns the trimmed concatenation of the contents of the
\* lines before the first one holding the sentinel (of all lines when none does),
\* and the read loop can always go on to its return.
C4_ReturnsTrimmedText ==
  /\ (pc = "hc102" \/ outcome = "ok") => returned = Trimmed(TextBeforeSentinel(consumed))
  /\ pc = "iter" => ENABLED StreamExhausted
  /\ pc = "ret50" => ENABLED StreamReturn

C4_Witness ==
  /\ outcome = "ok"
  /\ consumed = <<[kind |-> "json", content |-> Hel], [kind |-> "json", content |-> Lo],
                  [kind |-> "json", content |-> Sentinel]>>
  /\ returned = Hello

\* C5: a failure status or a malformed line, wherever it comes in the stream, ends
\* handle_chat and the run with the exception; no assistant message is stored and
\* messages = H, {user, input}.
C5_FailedTurnKeepsUserMessage ==
  /\ (consumed # <<>> /\ consumed[Len(consumed)].kind = "malformed") => outcome = "raised"
  /\ outcome = "raised" =>
       /\ pc = "idle"
       /\ exc \in {"HTTPError", "ChunkError"}
       /\ arg # Empty
       /\ messages = Append(H, [role |-> "user", content |-> arg])
       /\ retpc = "l130" => stt = NoResponse

C5_Witness ==
  /\ outcome = "raised"
  /\ exc = "ChunkError"
  /\ response_text # Empty
  /\ H # <<>>

\* the text at results.channels[0].alternatives[0].transcript, "" when the path
\* is missing at some level
PathTranscript(body) ==
  IF /\ "results" \in DOMAIN body
     /\ "channels" \in DOMAIN body.results
     /\ Len(body.results.channels) >= 1
     /\ "alternatives" \in DOMAIN body.results.channels[1]
     /\ Len(body.results.channels[1].alternatives) >= 1
     /\ "transcript" \in DOMAIN body.results.channels[1].alternatives[1]
  THEN Trimmed(body.results.channels[1].alternatives[1].transcript)
  ELSE <<>>

\* C6: transcribe_audio never raises; for a 200 response it returns the trimmed
\* text at results.channels[0].alternatives[0].transcript, and "" when that path
\* is missing at any level.
C6_TranscribeNeverRaises ==
  /\ exc # "IndexError"
  /\ (pc = "l135" /\ stt.status = 200) => transcript = PathTranscript(stt.body)

C8_StrictAlternation ==
  \A i \in 1..Len(messages) : Roles[i] = IF i % 2 = 1 THEN "user" ELSE "assistant"

\* C8 as amended: the first message is a user message and every assistant message
\* directly follows a user message; the roles alternate strictly as long as no
\* chat turn has failed, and there are at most as many adjacent user pairs as
\* failed turns.
C8_AlternationUnlessTurnFailed ==
  /\ \A i \in 1..Len(messages) : Roles[i] = "assistant" => (i > 1 /\ Roles[i - 1] = "user")
  /\ chat_errors = 0 => C8_StrictAlternation
  /\ Cardinality({i \in 1..(Len(messages) - 1) : Roles[i] = "user" /\ Roles[i + 1] = "user"})
       <= chat_errors

C8_Witness == chat_errors = 1 /\ Roles = <<"user", "user", "assistant">>

\* C9: handle_chat is called at most once in a script run.
C9_OneTurnPerRun == turns <= 1

\* C10: no published partial and no stored assistant message holds the sentinel.
C10_SentinelNeverLeaks ==
  /\ \A i \in 1..Len(Partials) : ~Contains(Partials[i], Sentinel)
  /\ \A i \in 1..Len(messages) :
       Roles[i] = "assistant" => ~Contains(messages[i].content, Sentinel)

====
